---- MODULE Spec2Model ----
(***************************************************************************)
(* django_redis_task_lock: the lock decorator (__wrapper), the derivation  *)
(* of the lock name (construct_lock_name, __attr_finder) and the           *)
(* acquisition of the lock in the cache (acquire_lock).                    *)
(***************************************************************************)
EXTENDS Integers, Sequences, FiniteSets, TLC

\* ------------------------------------------------------------------------
\* Python values.  A value is a record tagged with its type; every type has
\* fields of its own.
\* ------------------------------------------------------------------------
IntV(n) == [tag |-> "int", i |-> n]

StrV(s) == [tag |-> "str", s |-> s]

NoneV == [tag |-> "NoneType"]

BoolV(b) == [tag |-> "bool", b |-> b]

\* a plain list: its elements in order
ListV(es) == [tag |-> "list", elems |-> es]

\* class PriorityList(list): a list whose type is not list
PriorityList(es) == [tag |-> "PriorityList", elems |-> es]

\* a tuple, as getfullargspec gives for the defaults of a function
TupleV(es) == [tag |-> "tuple", elems |-> es]

\* a dict: its items in insertion order, each [k |-> key value, v |-> value]
DictV(items) == [tag |-> "dict", items |-> items]

\* an instance of a user class: its attributes ([k |-> name, v |-> value]),
\* and the texts str() and repr() give for it
ObjV(attrs, text, rtext) == [tag |-> "object", attrs |-> attrs, text |-> text, rtext |-> rtext]

\* a bound method of a built-in type, as getattr({}, "items") gives
MethodV(name, owner) == [tag |-> "builtin_method", name |-> name, owner |-> owner]

\* ------------------------------------------------------------------------
\* Outcomes of a computation that may raise: exc = "None" when it returned.
\* val is a returned text (or the place of the raise), obj a returned value.
\* ------------------------------------------------------------------------
Ok(s) == [exc |-> "None", val |-> s, obj |-> NoneV]

Found(v) == [exc |-> "None", val |-> "", obj |-> v]

Raise(e, where) == [exc |-> e, val |-> where, obj |-> NoneV]

\* ------------------------------------------------------------------------
\* str(), repr() and truth value of a value
\* ------------------------------------------------------------------------
Digit(d) ==
    CASE d = 0 -> "0" [] d = 1 -> "1" [] d = 2 -> "2" [] d = 3 -> "3" [] d = 4 -> "4"
      [] d = 5 -> "5" [] d = 6 -> "6" [] d = 7 -> "7" [] d = 8 -> "8" [] d = 9 -> "9"

RECURSIVE NatToStr(_)
NatToStr(n) == IF n < 10 THEN Digit(n) ELSE NatToStr(n \div 10) \o Digit(n % 10)

IntToStr(n) == IF n < 0 THEN "-" \o NatToStr(0 - n) ELSE NatToStr(n)

RECURSIVE PyRepr(_), ReprElems(_, _), ReprItems(_, _)
PyRepr(v) ==
    CASE v.tag = "int" -> IntToStr(v.i)
      [] v.tag = "str" -> "'" \o v.s \o "'"
      [] v.tag = "NoneType" -> "None"
      [] v.tag = "bool" -> (IF v.b THEN "True" ELSE "False")
      [] v.tag = "list" -> "[" \o ReprElems(v.elems, 1) \o "]"
      [] v.tag = "PriorityList" -> "[" \o ReprElems(v.elems, 1) \o "]"
      [] v.tag = "tuple" ->
            "(" \o ReprElems(v.elems, 1) \o (IF Len(v.elems) = 1 THEN "," ELSE "") \o ")"
      [] v.tag = "dict" -> "{" \o ReprItems(v.items, 1) \o "}"
      [] v.tag = "object" -> v.rtext
      [] v.tag = "builtin_method" ->
            "<built-in method " \o v.name \o " of " \o v.owner \o " object at 0x7f>"

ReprElems(es, n) ==
    IF n > Len(es) THEN ""
    ELSE (IF n > 1 THEN ", " ELSE "") \o PyRepr(es[n]) \o ReprElems(es, n + 1)

ReprItems(items, n) ==
    IF n > Len(items) THEN ""
    ELSE (IF n > 1 THEN ", " ELSE "") \o PyRepr(items[n].k) \o ": " \o PyRepr(items[n].v)
            \o ReprItems(items, n + 1)

PyStr(v) ==
    CASE v.tag = "str" -> v.s
      [] v.tag = "object" -> v.text
      [] OTHER -> PyRepr(v)

Truthy(v) ==
    CASE v.tag = "int" -> v.i # 0
      [] v.tag = "str" -> v.s # ""
      [] v.tag = "NoneType" -> FALSE
      [] v.tag = "bool" -> v.b
      [] v.tag = "list" -> Len(v.elems) > 0
      [] v.tag = "PriorityList" -> Len(v.elems) > 0
      [] v.tag = "tuple" -> Len(v.elems) > 0
      [] v.tag = "dict" -> Len(v.items) > 0
      [] OTHER -> TRUE

\* hash(v) raises TypeError for the mutable containers
Hashable(v) == v.tag \notin {"list", "PriorityList", "dict"}

\* ------------------------------------------------------------------------
\* hasattr / getattr / obj[key]
\* ------------------------------------------------------------------------
\* the methods of dict that the accessors of the inputs can name
DictMethods == {"items", "keys", "values", "get"}

HasAttr(obj, name) ==
    CASE obj.tag = "object" -> \E n \in 1..Len(obj.attrs) : obj.attrs[n].k = name
      [] obj.tag = "dict" -> name \in DictMethods
      [] OTHER -> FALSE

GetAttr(obj, name) ==
    IF obj.tag = "object"
    THEN obj.attrs[CHOOSE n \in 1..Len(obj.attrs) : obj.attrs[n].k = name].v
    ELSE MethodV(name, obj.tag)

\* obj[key]: the value, or the exception the subscription raises
GetItem(obj, key) ==
    CASE obj.tag = "dict" ->
            IF ~Hashable(key) THEN Raise("TypeError", "unhashable type")
            ELSE IF \E n \in 1..Len(obj.items) : obj.items[n].k = key
            THEN Found(obj.items[CHOOSE n \in 1..Len(obj.items) : obj.items[n].k = key].v)
            ELSE Raise("KeyError", "getitem")
      [] obj.tag \in {"list", "PriorityList", "tuple"} ->
            IF key.tag # "int" THEN Raise("TypeError", "list indices must be integers")
            ELSE IF key.i >= 0 /\ key.i < Len(obj.elems) THEN Found(obj.elems[key.i + 1])
            ELSE IF key.i < 0 /\ 0 - key.i <= Len(obj.elems)
            THEN Found(obj.elems[Len(obj.elems) + key.i + 1])
            ELSE Raise("IndexError", "list index out of range")
      [] obj.tag = "str" ->
            IF key.tag # "int" THEN Raise("TypeError", "string indices must be integers")
            ELSE IF key.i >= 0 /\ key.i < Len(obj.s)
            THEN Found(StrV(SubSeq(obj.s, key.i + 1, key.i + 1)))
            ELSE IF key.i < 0 /\ 0 - key.i <= Len(obj.s)
            THEN Found(StrV(SubSeq(obj.s, Len(obj.s) + key.i + 1, Len(obj.s) + key.i + 1)))
            ELSE Raise("IndexError", "string index out of range")
      [] OTHER -> Raise("TypeError", "object is not subscriptable")

\* __attr_finder(obj, attr_list): the text of the value at the end of the
\* chain, or the exception raised on the way
RECURSIVE attr_finder(_, _)
attr_finder(obj, attr_list) ==
    IF Len(attr_list) = 0 THEN Raise("IndexError", "attr_list[0]")
    ELSE
      LET attr == attr_list[1]
          got  == IF attr.tag = "str" /\ HasAttr(obj, attr.s)
                  THEN Found(GetAttr(obj, attr.s))
                  ELSE LET item == GetItem(obj, attr)
                       IN IF item.exc = "KeyError"
                          THEN Raise("KeyError", "Could not find attribute/key " \o PyStr(attr))
                          ELSE item
      IN IF got.exc # "None" THEN got
         ELSE IF Len(attr_list) = 1 THEN Ok(PyStr(got.obj))
         ELSE attr_finder(got.obj, Tail(attr_list))

\* ------------------------------------------------------------------------
\* construct_lock_name
\*   func    [name, params, defaults]: func.__name__, getfullargspec(func)[0]
\*           and getfullargspec(func)[3] (None, or the tuple of the defaults)
\*   args    the positional arguments, in order
\*   kwargs  the keyword arguments in the order given: [k |-> name, v |-> value]
\*   options the decorator's options: a record holding the options given
\* ------------------------------------------------------------------------
\* var in kwargs (hashing var raises for an unhashable one: see Hashable)
InKwargs(var, kwargs) ==
    var.tag = "str" /\ \E n \in 1..Len(kwargs) : kwargs[n].k = var.s

\* kwargs[name]
KwGet(kwargs, name) == kwargs[CHOOSE n \in 1..Len(kwargs) : kwargs[n].k = name].v

\* var in param_list
InParams(var, param_list) ==
    var.tag = "str" /\ \E n \in 1..Len(param_list) : param_list[n] = var.s

\* param_list.index(name), from 0
IndexOf(param_list, name) ==
    (CHOOSE n \in 1..Len(param_list) :
        /\ param_list[n] = name
        /\ \A m \in 1..(n - 1) : param_list[m] # name) - 1

\* defaults[param_list[-len(defaults):].index(name)]
DefaultOf(func, name) ==
    IF func.defaults.tag = "NoneType"
    THEN Raise("TypeError", "object of type NoneType has no len()")
    ELSE LET n      == Len(func.defaults.elems)
             first  == IF n >= Len(func.params) THEN 1 ELSE Len(func.params) - n + 1
             suffix == SubSeq(func.params, first, Len(func.params))
         IN IF \E m \in 1..Len(suffix) : suffix[m] = name
            THEN Found(func.defaults.elems[IndexOf(suffix, name) + 1])
            ELSE Raise("ValueError", "is not in list")

\* mutant of SingleParam: a value that is not truthy adds no segment
SingleParamGated(func, args, kwargs, var, lock_name) ==
    IF InKwargs(var, kwargs)
    THEN (IF Truthy(KwGet(kwargs, var.s))
          THEN Ok(lock_name \o ":" \o PyStr(KwGet(kwargs, var.s))) ELSE Ok(lock_name))
    ELSE IF InParams(var, func.params)
    THEN LET arg_index == IndexOf(func.params, var.s)
         IN IF Len(args) > arg_index
            THEN (IF Truthy(args[arg_index + 1])
                  THEN Ok(lock_name \o ":" \o PyStr(args[arg_index + 1])) ELSE Ok(lock_name))
            ELSE LET d == DefaultOf(func, var.s)
                 IN IF d.exc # "None" THEN d
                    ELSE IF Truthy(d.obj) THEN Ok(lock_name \o ":" \o PyStr(d.obj))
                    ELSE Ok(lock_name)
    ELSE Raise("ValueError", "Could not find parameter")

\* mutant of SingleParam: the positional argument is looked up before kwargs
SingleParamPositionalFirst(func, args, kwargs, var, lock_name) ==
    IF InParams(var, func.params) /\ Len(args) > IndexOf(func.params, var.s)
    THEN Ok(lock_name \o ":" \o PyStr(args[IndexOf(func.params, var.s) + 1]))
    ELSE IF InKwargs(var, kwargs)
    THEN Ok(lock_name \o ":" \o PyStr(KwGet(kwargs, var.s)))
    ELSE IF InParams(var, func.params)
    THEN LET d == DefaultOf(func, var.s)
         IN IF d.exc # "None" THEN d
            ELSE Ok(lock_name \o ":" \o PyStr(d.obj))
    ELSE Raise("ValueError", "Could not find parameter")

\* mutant of SingleParam: a name that is not found adds nothing
SingleParamSkipsMissing(func, args, kwargs, var, lock_name) ==
    IF InKwargs(var, kwargs)
    THEN Ok(lock_name \o ":" \o PyStr(KwGet(kwargs, var.s)))
    ELSE IF InParams(var, func.params)
    THEN LET arg_index == IndexOf(func.params, var.s)
         IN IF Len(args) > arg_index
            THEN Ok(lock_name \o ":" \o PyStr(args[arg_index + 1]))
            ELSE LET d == DefaultOf(func, var.s)
                 IN IF d.exc # "None" THEN d
                    ELSE Ok(lock_name \o ":" \o PyStr(d.obj))
    ELSE Ok(lock_name)

\* lines 154-165: a term that names one parameter
SingleParam(func, args, kwargs, var, lock_name) ==
    IF InKwargs(var, kwargs)
    THEN Ok(lock_name \o ":" \o PyStr(KwGet(kwargs, var.s)))
    ELSE IF InParams(var, func.params)
    THEN LET arg_index == IndexOf(func.params, var.s)
         IN IF Len(args) > arg_index
            THEN Ok(lock_name \o ":" \o PyStr(args[arg_index + 1]))
            ELSE LET d == DefaultOf(func, var.s)
                 IN IF d.exc # "None" THEN d
                    ELSE Ok(lock_name \o ":" \o PyStr(d.obj))
    ELSE Raise("ValueError", "Could not find parameter")

\* mutant of PriorityLoop: no break after the member that contributes
RECURSIVE PriorityLoopNoBreak(_, _, _, _, _)
PriorityLoopNoBreak(func, args, kwargs, members, lock_name) ==
    IF Len(members) = 0 THEN Ok(lock_name)
    ELSE
      LET param_name == Head(members)
          bound == IF InKwargs(param_name, kwargs) THEN Found(KwGet(kwargs, param_name.s))
                   ELSE IF InParams(param_name, func.params)
                   THEN (IF Len(args) > IndexOf(func.params, param_name.s)
                         THEN Found(args[IndexOf(func.params, param_name.s) + 1])
                         ELSE DefaultOf(func, param_name.s))
                   ELSE Raise("ValueError", "Could not find parameter within PriorityList")
      IN IF ~Hashable(param_name) THEN Raise("TypeError", "unhashable type")
         ELSE IF bound.exc # "None" THEN bound
         ELSE PriorityLoopNoBreak(func, args, kwargs, Tail(members),
                  IF Truthy(bound.obj) THEN lock_name \o ":" \o PyStr(bound.obj)
                  ELSE lock_name)

\* lines 167-185: the loop over the members of a PriorityList
RECURSIVE PriorityLoop(_, _, _, _, _)
PriorityLoop(func, args, kwargs, members, lock_name) ==
    IF Len(members) = 0 THEN Ok(lock_name)
    ELSE
      LET param_name == Head(members)
          rest       == PriorityLoop(func, args, kwargs, Tail(members), lock_name)
      IN IF ~Hashable(param_name) THEN Raise("TypeError", "unhashable type")
         ELSE IF InKwargs(param_name, kwargs)
         THEN IF Truthy(KwGet(kwargs, param_name.s))
              THEN Ok(lock_name \o ":" \o PyStr(KwGet(kwargs, param_name.s)))
              ELSE rest
         ELSE IF InParams(param_name, func.params)
         THEN LET arg_index == IndexOf(func.params, param_name.s)
              IN IF Len(args) > arg_index
                 THEN IF Truthy(args[arg_index + 1])
                      THEN Ok(lock_name \o ":" \o PyStr(args[arg_index + 1]))
                      ELSE rest
                 ELSE LET d == DefaultOf(func, param_name.s)
                      IN IF d.exc # "None" THEN d
                         ELSE IF Truthy(d.obj)
                         THEN Ok(lock_name \o ":" \o PyStr(d.obj))
                         ELSE rest
         ELSE Raise("ValueError", "Could not find parameter within PriorityList")

\* the text a chain contributes: ":" and the text __attr_finder gives
ChainSegment(lock_name, found) ==
    IF found.exc # "None" THEN found ELSE Ok(lock_name \o ":" \o found.val)

\* lines 187-199: a term that is an attribute chain
AttrChain(func, args, kwargs, var, lock_name) ==
    IF Len(var.elems) = 0 THEN Raise("IndexError", "var[0]")
    ELSE
      LET param_name == var.elems[1]
          chain      == Tail(var.elems)
      IN IF ~Hashable(param_name) THEN Raise("TypeError", "unhashable type")
         ELSE IF InKwargs(param_name, kwargs)
         THEN ChainSegment(lock_name, attr_finder(KwGet(kwargs, param_name.s), chain))
         ELSE IF InParams(param_name, func.params)
         THEN LET arg_index == IndexOf(func.params, param_name.s)
              IN IF Len(args) > arg_index
                 THEN ChainSegment(lock_name, attr_finder(args[arg_index + 1], chain))
                 ELSE LET d == DefaultOf(func, param_name.s)
                      IN IF d.exc # "None" THEN d
                         ELSE ChainSegment(lock_name, attr_finder(d.obj, chain))
         ELSE Raise("ValueError", "Could not find parameter")

\* lines 152-202: the loop over the terms of a list lock_name
RECURSIVE TermLoop(_, _, _, _, _)
TermLoop(func, args, kwargs, terms, lock_name) ==
    IF Len(terms) = 0 THEN Ok(lock_name)
    ELSE
      LET var == Head(terms)
          r   == CASE var.tag = "str" -> SingleParam(func, args, kwargs, var, lock_name)
                   [] var.tag = "PriorityList" ->
                        PriorityLoop(func, args, kwargs, var.elems, lock_name)
                   [] var.tag = "list" -> AttrChain(func, args, kwargs, var, lock_name)
                   [] OTHER -> Raise("TypeError", "is not a valid type for specifying a lock name")
      IN IF r.exc # "None" THEN r
         ELSE TermLoop(func, args, kwargs, Tail(terms), r.val)

\* re.match("<.*object at.*>", s)
RegexMatch(s) ==
    /\ Len(s) >= 11
    /\ SubSeq(s, 1, 1) = "<"
    /\ \E p \in 2..(Len(s) - 9) :
          /\ SubSeq(s, p, p + 8) = "object at"
          /\ \E q \in (p + 9)..Len(s) : SubSeq(s, q, q) = ">"

\* mutant of AutoSegment: a value whose str() is a placeholder adds nothing
AutoSegmentNoRepr(val) ==
    IF ~RegexMatch(PyStr(val)) THEN ":" \o PyStr(val) ELSE ""

\* lines 207-210 and 213-216: what one value adds in the absence of a lock_name
AutoSegment(val) ==
    IF ~RegexMatch(PyStr(val)) THEN ":" \o PyStr(val)
    ELSE IF ~RegexMatch(PyRepr(val)) THEN ":" \o PyRepr(val)
    ELSE ""

RECURSIVE AutoArgs(_, _)
AutoArgs(args, lock_name) ==
    IF Len(args) = 0 THEN lock_name
    ELSE AutoArgs(Tail(args), lock_name \o AutoSegment(Head(args)))

RECURSIVE AutoKwargs(_, _)
AutoKwargs(kwargs, lock_name) ==
    IF Len(kwargs) = 0 THEN lock_name
    ELSE AutoKwargs(Tail(kwargs), lock_name \o AutoSegment(Head(kwargs).v))

\* mutant of construct_lock_name: a str lock_name is put after the function's name
construct_lock_name_prefixed(func, args, kwargs, options) ==
    IF "lock_name" \in DOMAIN options
    THEN IF options.lock_name.tag = "str" THEN Ok(func.name \o ":" \o options.lock_name.s)
         ELSE IF options.lock_name.tag = "list"
         THEN TermLoop(func, args, kwargs, options.lock_name.elems, func.name)
         ELSE Ok(func.name)
    ELSE Ok(AutoKwargs(kwargs, AutoArgs(args, func.name)))

construct_lock_name(func, args, kwargs, options) ==
    IF "lock_name" \in DOMAIN options
    THEN IF options.lock_name.tag = "str" THEN Ok(options.lock_name.s)
         ELSE IF options.lock_name.tag = "list"
         THEN TermLoop(func, args, kwargs, options.lock_name.elems, func.name)
         ELSE Ok(func.name)
    ELSE Ok(AutoKwargs(kwargs, AutoArgs(args, func.name)))

\* ------------------------------------------------------------------------
\* The decorator's options
\* ------------------------------------------------------------------------
\* options.get(key, default)
OptGet(options, key, default) ==
    IF key \in DOMAIN options THEN options[key] ELSE default

\* the default of the timeout option
DefaultTimeout == 60

\* the lock the invocation asks for: caches[cache].lock(lock_name, ...)
LockId(options, lock_name) ==
    [cache |-> OptGet(options, "cache", "default"), name |-> lock_name]

\* the time at which the cache drops a lock taken at time t: never (-1) when
\* the timeout is None
Expiry(options, t) ==
    LET timeout == OptGet(options, "timeout", IntV(DefaultTimeout))
    IN IF timeout.tag = "NoneType" THEN 0 - 1 ELSE t + timeout.i

\* mutant of DerivationFailed: the exception is swallowed
DerivationFailedSwallowed(r) == FALSE

\* construct_lock_name raised: __wrapper has no handler around it
DerivationFailed(r) == r.exc # "None"

\* mutant of GivesUp: a held lock is waited for whatever blocking says
GivesUpNever(options, waited) == FALSE

\* mutant of GivesUp: the timeout option bounds the wait of a blocking acquire
GivesUpAfterTimeout(options, waited) ==
    \/ OptGet(options, "blocking", FALSE) = FALSE
    \/ LET timeout == OptGet(options, "timeout", IntV(DefaultTimeout))
       IN timeout.tag = "int" /\ waited >= timeout.i

\* lock.acquire(blocking) returns False on a held lock: at once when not
\* blocking; when blocking it is given no blocking timeout and tries again
GivesUp(options, waited) == OptGet(options, "blocking", FALSE) = FALSE

\* mutant of ShouldRelease: the option defaults to True
ShouldReleaseByDefault(options) == OptGet(options, "release_on_completion", TRUE) = TRUE

\* options.get("release_on_completion", False) is True
ShouldRelease(options) == OptGet(options, "release_on_completion", FALSE) = TRUE

\* mutant of FinallyOutcome: an exception of lock.release() leaves the finally block
FinallyOutcomeUnguarded(result, released) ==
    IF released.exc # "None" THEN [kind |-> "raised", val |-> NoneV, exc |-> released.exc]
    ELSE result

\* try: return func(...) finally: try: lock.release() except Exception: pass
\* result is what func did, released what lock.release() did
FinallyOutcome(result, released) == result

\* ------------------------------------------------------------------------
\* Bounds and inputs of the guard
\* ------------------------------------------------------------------------
NumInvocations == 2

MaxTime == 2

Invocations == 1..NumInvocations

NoOutcome == [kind |-> "none", val |-> NoneV, exc |-> ""]

Returned(v) == [kind |-> "returned", val |-> v, exc |-> ""]

Raised(e) == [kind |-> "raised", val |-> NoneV, exc |-> e]

NoCall == [func |-> [name |-> "", params |-> <<>>, defaults |-> NoneV],
           options |-> [debug |-> FALSE], args |-> <<>>, kwargs |-> <<>>]

\* two functions called f: f(a, b=0) and, in another module, f(a)
FuncF == [name |-> "f", params |-> <<"a", "b">>, defaults |-> TupleV(<<IntV(0)>>)]

FuncG == [name |-> "f", params |-> <<"a">>, defaults |-> NoneV]

\* @lock(lock_name=["a"], release_on_completion=True, locked="busy", timeout=2)
OptsByArg == [lock_name |-> ListV(<<StrV("a")>>), release_on_completion |-> TRUE,
              locked |-> StrV("busy"), timeout |-> IntV(2)]

\* @lock(blocking=True, timeout=1, release_on_completion=True)
OptsBlocking == [blocking |-> TRUE, timeout |-> IntV(1), release_on_completion |-> TRUE]

\* @lock(lock_name="f:1")
OptsLiteral == [lock_name |-> StrV("f:1")]

\* @lock(lock_name="f:1", cache="other", timeout=None)
OptsOther == [lock_name |-> StrV("f:1"), cache |-> "other", timeout |-> NoneV]

\* @lock(lock_name="f:1", timeout=1)
OptsShort == [lock_name |-> StrV("f:1"), timeout |-> IntV(1)]

\* @lock(lock_name=["missing"], release_on_completion=True)
OptsMissing == [lock_name |-> ListV(<<StrV("missing")>>), release_on_completion |-> TRUE]

\* @lock(lock_name=[["a", "id"]])
OptsChain == [lock_name |-> ListV(<<ListV(<<StrV("a"), StrV("id")>>)>>)]

\* @lock(lock_name=[5], blocking=True)
OptsBadTerm == [lock_name |-> ListV(<<IntV(5)>>), blocking |-> TRUE]

MkCall(func, options, args, kwargs) ==
    [func |-> func, options |-> options, args |-> args, kwargs |-> kwargs]

\* the calls of the guarded functions that the invocations make
GuardCalls ==
    { MkCall(FuncF, OptsByArg, <<IntV(1)>>, <<>>),
      MkCall(FuncG, OptsBlocking, <<IntV(1)>>, <<>>),
      MkCall(FuncG, OptsLiteral, <<IntV(2)>>, <<>>),
      MkCall(FuncG, OptsOther, <<IntV(1)>>, <<>>),
      MkCall(FuncG, OptsShort, <<IntV(1)>>, <<>>),
      MkCall(FuncF, OptsMissing, <<IntV(1)>>, <<>>),
      MkCall(FuncF, OptsChain, <<IntV(1)>>, <<>>),
      MkCall(FuncF, OptsChain, <<DictV(<<>>)>>, <<>>),
      MkCall(FuncF, OptsBadTerm, <<IntV(1)>>, <<>>) }

\* what the wrapped function does when it runs
FuncResults == {Returned(IntV(7)), Raised("RuntimeError")}

\* ------------------------------------------------------------------------
\* State
\* ------------------------------------------------------------------------
VARIABLES
    pc,            \* where each invocation of __wrapper is
    call,          \* the call it makes: func, options, args, kwargs
    derived,       \* what construct_lock_name gave it
    attempted,     \* whether it has called lock.acquire
    handle,        \* whether acquire_lock returned it a lock
    ran,           \* how many times it has invoked func
    funcResult,    \* what func did
    releaseCalls,  \* how many times it has called lock.release
    releaseExc,    \* what its lock.release raised ("None": nothing)
    outcome,       \* what the caller of __wrapper got
    waited,        \* the time it has spent inside lock.acquire on a held lock
    store,         \* the locks held in the caches: [cache, name, owner, expires]
    now            \* the time

vars == <<pc, call, derived, attempted, handle, ran, funcResult, releaseCalls,
          releaseExc, outcome, waited, store, now>>

Init ==
    /\ pc = [i \in Invocations |-> "idle"]
    /\ call = [i \in Invocations |-> NoCall]
    /\ derived = [i \in Invocations |-> Ok("")]
    /\ attempted = [i \in Invocations |-> FALSE]
    /\ handle = [i \in Invocations |-> FALSE]
    /\ ran = [i \in Invocations |-> 0]
    /\ funcResult = [i \in Invocations |-> NoOutcome]
    /\ releaseCalls = [i \in Invocations |-> 0]
    /\ releaseExc = [i \in Invocations |-> "None"]
    /\ outcome = [i \in Invocations |-> NoOutcome]
    /\ waited = [i \in Invocations |-> 0]
    /\ store = {}
    /\ now = 0

\* the lock of invocation i, and whether some holder has it in the cache
LockOf(i) == LockId(call[i].options, derived[i].val)

\* mutant of Held: the lock is taken whether or not it is held
HeldNever(lock) == FALSE

Held(lock) == \E l \in store : l.cache = lock.cache /\ l.name = lock.name

HeldBy(lock, i) ==
    \E l \in store : l.cache = lock.cache /\ l.name = lock.name /\ l.owner = i

\* __wrapper, line 61: the lock name is constructed; an exception of
\* construct_lock_name leaves __wrapper at once
Call(i, c) ==
    /\ pc[i] = "idle"
    /\ LET r == construct_lock_name(c.func, c.args, c.kwargs, c.options)
       IN /\ call' = [call EXCEPT ![i] = c]
          /\ derived' = [derived EXCEPT ![i] = r]
          /\ IF DerivationFailed(r)
             THEN /\ pc' = [pc EXCEPT ![i] = "done"]
                  /\ outcome' = [outcome EXCEPT ![i] = Raised(r.exc)]
             ELSE /\ pc' = [pc EXCEPT ![i] = "acquire"]
                  /\ UNCHANGED outcome
    /\ UNCHANGED <<attempted, handle, ran, funcResult, releaseCalls, releaseExc, waited,
                   store, now>>

\* mutant of Acquire: an invocation that finds its lock held goes through the
\* release of the finally block on its way out
AcquireSkipReleases(i) ==
    /\ pc[i] = "acquire"
    /\ attempted' = [attempted EXCEPT ![i] = TRUE]
    /\ IF ~Held(LockOf(i))
       THEN /\ store' = store \cup
                  { [cache |-> LockOf(i).cache, name |-> LockOf(i).name, owner |-> i,
                     expires |-> Expiry(call[i].options, now)] }
            /\ handle' = [handle EXCEPT ![i] = TRUE]
            /\ ran' = [ran EXCEPT ![i] = @ + 1]
            /\ pc' = [pc EXCEPT ![i] = "running"]
            /\ UNCHANGED <<outcome, releaseCalls>>
       ELSE IF GivesUp(call[i].options, waited[i])
       THEN /\ pc' = [pc EXCEPT ![i] = "done"]
            /\ outcome' = [outcome EXCEPT ![i] =
                              Returned(OptGet(call[i].options, "locked", NoneV))]
            /\ store' = IF ShouldRelease(call[i].options)
                        THEN {l \in store : ~(l.cache = LockOf(i).cache
                                              /\ l.name = LockOf(i).name)}
                        ELSE store
            /\ releaseCalls' = [releaseCalls EXCEPT ![i] =
                                   IF ShouldRelease(call[i].options) THEN @ + 1 ELSE @]
            /\ UNCHANGED <<handle, ran>>
       ELSE UNCHANGED <<pc, outcome, store, handle, ran, releaseCalls>>
    /\ UNCHANGED <<call, derived, funcResult, releaseExc, waited, now>>

\* acquire_lock, and lines 63-66 of __wrapper: the lock is taken and func
\* invoked, or the locked option returned, or (blocking) the wait goes on
Acquire(i) ==
    /\ pc[i] = "acquire"
    /\ attempted' = [attempted EXCEPT ![i] = TRUE]
    /\ IF ~Held(LockOf(i))
       THEN /\ store' = store \cup
                  { [cache |-> LockOf(i).cache, name |-> LockOf(i).name, owner |-> i,
                     expires |-> Expiry(call[i].options, now)] }
            /\ handle' = [handle EXCEPT ![i] = TRUE]
            /\ ran' = [ran EXCEPT ![i] = @ + 1]
            /\ pc' = [pc EXCEPT ![i] = "running"]
            /\ UNCHANGED outcome
       ELSE IF GivesUp(call[i].options, waited[i])
       THEN /\ pc' = [pc EXCEPT ![i] = "done"]
            /\ outcome' = [outcome EXCEPT ![i] =
                              Returned(OptGet(call[i].options, "locked", NoneV))]
            /\ UNCHANGED <<store, handle, ran>>
       ELSE UNCHANGED <<pc, outcome, store, handle, ran>>
    /\ UNCHANGED <<call, derived, funcResult, releaseCalls, releaseExc, waited, now>>

\* line 66: func returns or raises
FuncEnds(i, result) ==
    /\ pc[i] = "running"
    /\ funcResult' = [funcResult EXCEPT ![i] = result]
    /\ pc' = [pc EXCEPT ![i] = "finally"]
    /\ UNCHANGED <<call, derived, attempted, handle, ran, releaseCalls, releaseExc,
                   outcome, waited, store, now>>

\* lock.release() of invocation i: the lock is deleted if it is still i's;
\* otherwise, or when the cache cannot be reached (~reachable), it raises
Release(i, reachable) ==
    IF ~reachable THEN Raise("ConnectionError", "release")
    ELSE IF HeldBy(LockOf(i), i) THEN Ok("released")
    ELSE Raise("LockNotOwnedError", "release")

\* lines 67-73: the finally block, then func's result reaches the caller
Finally(i, reachable) ==
    /\ pc[i] = "finally"
    /\ IF ShouldRelease(call[i].options)
       THEN LET released == Release(i, reachable)
            IN /\ releaseCalls' = [releaseCalls EXCEPT ![i] = @ + 1]
               /\ releaseExc' = [releaseExc EXCEPT ![i] = released.exc]
               /\ store' = IF released.exc = "None"
                           THEN {l \in store : ~(l.cache = LockOf(i).cache
                                                 /\ l.name = LockOf(i).name)}
                           ELSE store
               /\ outcome' = [outcome EXCEPT ![i] = FinallyOutcome(funcResult[i], released)]
       ELSE /\ UNCHANGED <<releaseCalls, releaseExc, store>>
            /\ outcome' = [outcome EXCEPT ![i] = FinallyOutcome(funcResult[i], Ok(""))]
    /\ pc' = [pc EXCEPT ![i] = "done"]
    /\ UNCHANGED <<call, derived, attempted, handle, ran, funcResult, waited, now>>

\* time passes: for the invocations inside lock.acquire too; the cache drops
\* the locks whose timeout has run out
Tick ==
    /\ now < MaxTime
    /\ now' = now + 1
    /\ waited' = [i \in Invocations |->
                    IF pc[i] = "acquire" /\ attempted[i] THEN waited[i] + 1 ELSE waited[i]]
    /\ store' = {l \in store : l.expires < 0 \/ l.expires > now + 1}
    /\ UNCHANGED <<pc, call, derived, attempted, handle, ran, funcResult, releaseCalls,
                   releaseExc, outcome>>

Next ==
    \/ \E i \in Invocations, c \in GuardCalls : Call(i, c)
    \/ \E i \in Invocations : Acquire(i)
    \/ \E i \in Invocations, result \in FuncResults : FuncEnds(i, result)
    \/ \E i \in Invocations, reachable \in BOOLEAN : Finally(i, reachable)
    \/ Tick

Spec == Init /\ [][Next]_vars

\* ------------------------------------------------------------------------
\* The derivation of the lock name on its own: one invocation, its call drawn
\* from the functions, lock_name options and arguments below
\* ------------------------------------------------------------------------
MaxArgs == 2

MaxKwargs == 2

\* h(a, b=0, c="d")
FuncH == [name |-> "h", params |-> <<"a", "b", "c">>,
          defaults |-> TupleV(<<IntV(0), StrV("d")>>)]

KeyFuncs == {FuncF, FuncG, FuncH}

\* {"customer": {"id": 42}}
Order ==
    DictV(<<[k |-> StrV("customer"), v |-> DictV(<<[k |-> StrV("id"), v |-> IntV(42)]>>)]>>)

\* an instance of a class Order that has a customer, the customer an id; str()
\* and repr() of both are those of object: "<... object at 0x...>"
OrderObj ==
    ObjV(<<[k |-> "customer",
            v |-> ObjV(<<[k |-> "id", v |-> IntV(7)]>>,
                       "<Customer object at 0x7f>", "<Customer object at 0x7f>")]>>,
         "<Order object at 0x7f>", "<Order object at 0x7f>")

\* an instance of a class Job whose __repr__ says what it is while its
\* __str__ gives the text of object
Job == ObjV(<<>>, "<Job object at 0x7f>", "Job(7)")

ArgValues == {IntV(0), IntV(42), StrV(""), StrV("b"), Order, OrderObj, Job}

KwNames == {"a", "b"}

KwValues == {StrV(""), StrV("x"), Order}

\* the lock_name options
LockNames ==
    { ListV(<<StrV("a"), StrV("b")>>),
      ListV(<<StrV("a")>>),
      ListV(<<StrV("b")>>),
      ListV(<<StrV("c")>>),
      ListV(<<StrV("missing")>>),
      ListV(<<PriorityList(<<StrV("a"), StrV("b"), StrV("c")>>)>>),
      ListV(<<PriorityList(<<StrV("b"), StrV("a")>>), StrV("a")>>),
      ListV(<<PriorityList(<<StrV("b")>>)>>),
      ListV(<<PriorityList(<<StrV("a"), StrV("missing")>>)>>),
      ListV(<<PriorityList(<<ListV(<<StrV("a"), StrV("customer")>>)>>)>>),
      ListV(<<ListV(<<StrV("a"), StrV("customer"), StrV("id")>>)>>),
      ListV(<<ListV(<<StrV("a"), StrV("id")>>)>>),
      ListV(<<ListV(<<StrV("b"), StrV("customer")>>)>>),
      ListV(<<IntV(5)>>),
      StrV("checkout-lock"),
      IntV(3) }

\* the options of the derivation: a lock_name, or none (debug=False alone)
KeyOptions == {[lock_name |-> ln] : ln \in LockNames} \cup {[debug |-> FALSE]}

ArgSeqs == UNION {[1..n -> ArgValues] : n \in 0..MaxArgs}

\* keyword arguments: names that differ, in the order given
KwSeqs ==
    UNION { { kw \in [1..n -> [k : KwNames, v : KwValues]] :
                \A x, y \in 1..n : x # y => kw[x].k # kw[y].k }
            : n \in 0..MaxKwargs }

\* process(x, y, z=9), and its call process(42, "abc") without a lock_name
FuncProcess == [name |-> "process", params |-> <<"x", "y", "z">>,
                defaults |-> TupleV(<<IntV(9)>>)]

ExampleCalls == {MkCall(FuncProcess, [debug |-> FALSE], <<IntV(42), StrV("abc")>>, <<>>)}

KeyCalls ==
    { MkCall(func, options, args, kwargs) :
        func \in KeyFuncs, options \in KeyOptions, args \in ArgSeqs, kwargs \in KwSeqs }
    \cup ExampleCalls

\* the one invocation makes its call
NextKey == pc[1] = "idle" /\ \E c \in KeyCalls : Call(1, c)

SpecKey == Init /\ [][NextKey]_vars

\* ------------------------------------------------------------------------
\* Properties of the guard (specification Spec)
\* ------------------------------------------------------------------------
Called(i) == pc[i] # "idle"

Blocking(i) == "blocking" \in DOMAIN call[i].options /\ call[i].options.blocking = TRUE

ReleaseEnabled(i) ==
    /\ "release_on_completion" \in DOMAIN call[i].options
    /\ call[i].options.release_on_completion = TRUE

\* the locked option of invocation i: None when not given
Fallback(i) ==
    IF "locked" \in DOMAIN call[i].options THEN call[i].options.locked ELSE NoneV

\* the timeout option of invocation i (the default when not given, -1 for None)
TimeoutOf(i) ==
    IF "timeout" \in DOMAIN call[i].options
    THEN (IF call[i].options.timeout.tag = "int" THEN call[i].options.timeout.i ELSE 0 - 1)
    ELSE DefaultTimeout

SameLock(i, j) ==
    /\ derived[i].exc = "None" /\ derived[j].exc = "None"
    /\ Called(i) /\ Called(j)
    /\ LockOf(i) = LockOf(j)

\* C1: a non-blocking invocation whose first call of lock.acquire finds its lock
\* (same cache, same derived key) held ends in that step with the locked option
\* as its result (None when not given), without having invoked func; and it
\* stays ended, so func is never invoked for it.
C1_HeldLockSkips ==
    [][\A i \in Invocations :
          /\ (pc[i] = "acquire" /\ ~Blocking(i) /\ Held(LockOf(i))
                /\ ~attempted[i] /\ attempted'[i])
               => (pc'[i] = "done" /\ outcome'[i] = Returned(Fallback(i))
                     /\ ran'[i] = 0 /\ ~handle'[i])
          /\ (pc[i] = "done" => (pc'[i] = "done" /\ ran'[i] = ran[i]))]_vars

\* C1 happens: an invocation was skipped with a locked option of its own
\* while another one, holding the same lock, is still inside func
C1_Witness ==
    \E i, j \in Invocations :
        /\ i # j /\ SameLock(i, j)
        /\ pc[j] = "running" /\ HeldBy(LockOf(j), j)
        /\ pc[i] = "done" /\ attempted[i] /\ ran[i] = 0
        /\ Fallback(i) = StrV("busy") /\ outcome[i] = Returned(StrV("busy"))

\* the cache has dropped, by timeout, the lock that invocation i took and has
\* not released
Expired(i) == handle[i] /\ releaseCalls[i] = 0 /\ ~HeldBy(LockOf(i), i)

\* C2: an invocation is inside func only if acquire_lock gave it the lock and
\* it has not called release; and two invocations with the same lock (same
\* cache, same derived key) are inside func together only if the cache has
\* dropped the lock of one of them by timeout.
C2_RunsOnlyWithLock ==
    /\ \A i \in Invocations :
          pc[i] = "running" => (handle[i] /\ attempted[i] /\ releaseCalls[i] = 0)
    /\ \A i, j \in Invocations :
          (i # j /\ pc[i] = "running" /\ pc[j] = "running" /\ SameLock(i, j))
             => (Expired(i) \/ Expired(j))

\* C2 happens: one invocation is inside func holding the lock that another
\* one, blocking, is waiting for
C2_Witness ==
    \E i, j \in Invocations :
        /\ i # j /\ SameLock(i, j)
        /\ pc[i] = "running" /\ HeldBy(LockOf(i), i)
        /\ pc[j] = "acquire" /\ attempted[j] /\ ~handle[j]

\* C3: an invocation whose construct_lock_name raised has ended with that
\* exception as its outcome; it has not invoked func, has not called
\* lock.acquire or lock.release, and holds no lock in any cache.
C3_DerivationErrorPropagates ==
    \A i \in Invocations :
        (Called(i) /\ derived[i].exc # "None")
           => /\ pc[i] = "done"
              /\ outcome[i] = Raised(derived[i].exc)
              /\ ran[i] = 0 /\ ~attempted[i] /\ ~handle[i] /\ releaseCalls[i] = 0
              /\ \A l \in store : l.owner # i

\* C3 happens: a parameter that is not found (ValueError) and a chain hop
\* that cannot be resolved (KeyError) have both reached their callers
C3_Witness ==
    \E i, j \in Invocations :
        /\ outcome[i] = Raised("ValueError") /\ derived[i].val = "Could not find parameter"
        /\ outcome[j] = Raised("KeyError") /\ ran[i] = 0 /\ ran[j] = 0

\* C4: an invocation that acquired the lock and has ended gives its caller
\* what func did: the value func returned or the exception func raised,
\* whatever lock.release() did.
C4_OutcomeIsFuncOutcome ==
    \A i \in Invocations :
        (pc[i] = "done" /\ handle[i])
           => (funcResult[i] # NoOutcome /\ outcome[i] = funcResult[i])

\* C4 happens: func raised, lock.release() raised too, and the caller got
\* the exception of func
C4_Witness ==
    \E i \in Invocations :
        /\ pc[i] = "done" /\ handle[i]
        /\ funcResult[i] = Raised("RuntimeError")
        /\ releaseExc[i] = "LockNotOwnedError"
        /\ outcome[i] = Raised("RuntimeError")

\* C5: lock.release is called once by an invocation that acquired the lock,
\* has release_on_completion=True and has left the finally block, and is
\* called by no other; when it has been called, func has finished.
C5_ReleaseExactlyWhenEnabled ==
    \A i \in Invocations :
        /\ releaseCalls[i] =
              (IF pc[i] = "done" /\ handle[i] /\ ReleaseEnabled(i) THEN 1 ELSE 0)
        /\ releaseCalls[i] > 0 => (funcResult[i] # NoOutcome /\ ran[i] = 1)

\* C5 happens: func raised and the lock was then released, once, while an
\* invocation without the option has ended holding its lock
C5_Witness ==
    \E i, j \in Invocations :
        /\ pc[i] = "done" /\ funcResult[i] = Raised("RuntimeError")
        /\ releaseCalls[i] = 1 /\ releaseExc[i] = "None"
        /\ pc[j] = "done" /\ handle[j] /\ ~ReleaseEnabled(j) /\ releaseCalls[j] = 0

\* C6 as stated: a blocking invocation whose lock is still held is no longer
\* waiting once more than its timeout has passed.
C6_WaitBoundedByTimeout ==
    \A i \in Invocations :
        (pc[i] = "acquire" /\ attempted[i] /\ Blocking(i) /\ Held(LockOf(i))
            /\ TimeoutOf(i) >= 0)
           => waited[i] <= TimeoutOf(i)

\* C6 as amended: a blocking invocation leaves lock.acquire only by taking
\* the lock, in a step in which no one holds it, and then invokes func; while
\* its lock is held it goes on waiting, whatever its timeout, and it is never
\* skipped.
C6_BlockingWaitsUntilFree ==
    [][\A i \in Invocations :
          (pc[i] = "acquire" /\ Blocking(i))
             => \/ pc'[i] = "acquire"
                \/ /\ ~Held(LockOf(i))
                   /\ pc'[i] = "running" /\ handle'[i] /\ ran'[i] = 1]_vars

\* C6 happens: a blocking invocation with timeout=1 has waited longer than
\* that for a held lock and is inside func after the holder's lock ran out
C6_Witness ==
    \E i \in Invocations :
        /\ Blocking(i) /\ TimeoutOf(i) = 1 /\ waited[i] > TimeoutOf(i)
        /\ pc[i] = "running" /\ HeldBy(LockOf(i), i)

\* ------------------------------------------------------------------------
\* Properties of the derivation (specification SpecKey)
\* ------------------------------------------------------------------------
\* The value bound to a parameter name in a call: the keyword argument of that
\* name; else the positional argument at the parameter's place; else the
\* declared default, the defaults belonging to the last parameters.
HasKw(c, name) == \E n \in 1..Len(c.kwargs) : c.kwargs[n].k = name

KwOf(c, name) == c.kwargs[CHOOSE n \in 1..Len(c.kwargs) : c.kwargs[n].k = name].v

Declared(c, name) == \E p \in 1..Len(c.func.params) : c.func.params[p] = name

Place(c, name) == CHOOSE p \in 1..Len(c.func.params) : c.func.params[p] = name

HasPositional(c, name) == Declared(c, name) /\ Place(c, name) <= Len(c.args)

NumDefaults(c) ==
    IF c.func.defaults.tag = "NoneType" THEN 0 ELSE Len(c.func.defaults.elems)

HasDefault(c, name) ==
    Declared(c, name) /\ Place(c, name) > Len(c.func.params) - NumDefaults(c)

IsBound(c, name) == HasKw(c, name) \/ HasPositional(c, name) \/ HasDefault(c, name)

BoundValue(c, name) ==
    IF HasKw(c, name) THEN KwOf(c, name)
    ELSE IF HasPositional(c, name) THEN c.args[Place(c, name)]
    ELSE c.func.defaults.elems[Place(c, name) - (Len(c.func.params) - NumDefaults(c))]

\* the call has a list lock_name
HasTerms(c) == "lock_name" \in DOMAIN c.options /\ c.options.lock_name.tag = "list"

Terms(c) == c.options.lock_name.elems

IsBare(term) == term.tag = "str"

\* a PriorityList all of whose members are parameter names
IsGroup(term) ==
    term.tag = "PriorityList" /\ \A k \in 1..Len(term.elems) : term.elems[k].tag = "str"

\* member k is the first of the group with a truthy bound value: it and all
\* the members before it are bound, and those before it are not truthy
FirstTruthy(c, ms, k) ==
    /\ \A j \in 1..k : IsBound(c, ms[j].s)
    /\ \A j \in 1..(k - 1) : ~Truthy(BoundValue(c, ms[j].s))
    /\ Truthy(BoundValue(c, ms[k].s))

\* every member of the group is bound and none is truthy
NoneTruthy(c, ms) ==
    \A j \in 1..Len(ms) : IsBound(c, ms[j].s) /\ ~Truthy(BoundValue(c, ms[j].s))

\* the segments of terms that are bound parameter names
RECURSIVE BareSegments(_, _)
BareSegments(c, terms) ==
    IF Len(terms) = 0 THEN ""
    ELSE ":" \o PyStr(BoundValue(c, Head(terms).s)) \o BareSegments(c, Tail(terms))

AllBareBound(c, terms) ==
    \A n \in 1..Len(terms) : IsBare(terms[n]) /\ IsBound(c, terms[n].s)

\* C7: for a lock_name that is a PriorityList of parameter names followed by
\* bound parameter names: when member k is the first with a truthy bound
\* value, the group adds ":" + str(that value) and nothing else, whatever the
\* later members are; when all members are bound and none is truthy, the
\* group adds nothing and the construction succeeds.
C7_PriorityGroupFirstTruthy ==
    \A i \in Invocations :
        (Called(i) /\ HasTerms(call[i]) /\ Len(Terms(call[i])) >= 1
            /\ IsGroup(Terms(call[i])[1]) /\ AllBareBound(call[i], Tail(Terms(call[i]))))
           => LET c    == call[i]
                  ms   == Terms(c)[1].elems
                  rest == BareSegments(c, Tail(Terms(c)))
              IN /\ \A k \in 1..Len(ms) :
                       FirstTruthy(c, ms, k)
                          => derived[i] = Ok(c.func.name \o ":"
                                              \o PyStr(BoundValue(c, ms[k].s)) \o rest)
                 /\ NoneTruthy(c, ms) => derived[i] = Ok(c.func.name \o rest)

\* C7 happens: h(0, "b") under PriorityList ["a", "b", "c"]: a is 0, and b, not
\* the default "d" of c, gives the one segment
C7_Witness ==
    \E i \in Invocations :
        /\ Called(i) /\ call[i].func = FuncH /\ call[i].kwargs = <<>>
        /\ call[i].args = <<IntV(0), StrV("b")>>
        /\ call[i].options =
              [lock_name |-> ListV(<<PriorityList(<<StrV("a"), StrV("b"), StrV("c")>>)>>)]
        /\ derived[i] = Ok("h:b")

\* C8: for a lock_name that is a list of bound parameter names, the lock name
\* is the function's name followed by ":" + str(bound value) for each name in
\* the order of the list, truthy or not; f("", "b") under ["a", "b"] gives
\* "f::b".
C8_BareTermsAlwaysContribute ==
    \A i \in Invocations :
        (Called(i) /\ HasTerms(call[i]) /\ AllBareBound(call[i], Terms(call[i])))
           => /\ derived[i] = Ok(call[i].func.name \o BareSegments(call[i], Terms(call[i])))
              /\ (call[i].func.name = "f" /\ call[i].kwargs = <<>>
                    /\ call[i].args = <<StrV(""), StrV("b")>>
                    /\ Terms(call[i]) = <<StrV("a"), StrV("b")>>)
                   => derived[i].val = "f::b"

\* C8 happens: f("", "b") under ["a", "b"] has given "f::b"
C8_Witness ==
    \E i \in Invocations :
        /\ Called(i) /\ call[i].func = FuncF /\ call[i].kwargs = <<>>
        /\ call[i].args = <<StrV(""), StrV("b")>>
        /\ call[i].options = [lock_name |-> ListV(<<StrV("a"), StrV("b")>>)]
        /\ derived[i] = Ok("f::b")

\* C9: for a lock_name of one term whose parameter name is among the keyword
\* arguments, the keyword value alone decides the result, whatever the
\* positional arguments and the defaults are: a bare name gives ":" + str of
\* it, a PriorityList of that name gives the same if it is truthy and nothing
\* if not, a chain is resolved from it.
C9_KeywordWins ==
    \A i \in Invocations :
        (Called(i) /\ HasTerms(call[i]) /\ Len(Terms(call[i])) = 1)
           => LET c    == call[i]
                  term == Terms(c)[1]
                  name == c.func.name
              IN /\ (IsBare(term) /\ HasKw(c, term.s))
                      => derived[i] = Ok(name \o ":" \o PyStr(KwOf(c, term.s)))
                 /\ (IsGroup(term) /\ Len(term.elems) = 1 /\ HasKw(c, term.elems[1].s))
                      => derived[i] =
                            (IF Truthy(KwOf(c, term.elems[1].s))
                             THEN Ok(name \o ":" \o PyStr(KwOf(c, term.elems[1].s)))
                             ELSE Ok(name))
                 /\ (term.tag = "list" /\ Len(term.elems) >= 1
                       /\ term.elems[1].tag = "str" /\ HasKw(c, term.elems[1].s))
                      => derived[i] =
                            ChainSegment(name,
                                attr_finder(KwOf(c, term.elems[1].s), Tail(term.elems)))

\* C9 happens: f(42, "b", b="x") under ["b"]: the positional "b" covers the
\* parameter and the keyword "x" is used
C9_Witness ==
    \E i \in Invocations :
        /\ Called(i) /\ call[i].func = FuncF
        /\ call[i].args = <<IntV(42), StrV("b")>>
        /\ call[i].kwargs = <<[k |-> "b", v |-> StrV("x")]>>
        /\ call[i].options = [lock_name |-> ListV(<<StrV("b")>>)]
        /\ derived[i] = Ok("f:x")

\* the error of lines 163-165: the parameter was not found
ParameterNotFound(r) == r.exc = "ValueError" /\ r.val = "Could not find parameter"

\* C10: for a lock_name of one parameter name that is declared, is not a
\* keyword argument and is not covered by the positional arguments: with a
\* declared default the lock name is the function's name, ":" and str of that
\* parameter's default; without one the construction fails with the
\* parameter-not-found error.
C10_DefaultOrParameterNotFound ==
    \A i \in Invocations :
        (Called(i) /\ HasTerms(call[i]) /\ Len(Terms(call[i])) = 1
            /\ IsBare(Terms(call[i])[1])
            /\ Declared(call[i], Terms(call[i])[1].s)
            /\ ~HasKw(call[i], Terms(call[i])[1].s)
            /\ ~HasPositional(call[i], Terms(call[i])[1].s))
           => LET c == call[i]
                  x == Terms(c)[1].s
              IN IF HasDefault(c, x)
                 THEN derived[i] = Ok(c.func.name \o ":" \o PyStr(BoundValue(c, x)))
                 ELSE ParameterNotFound(derived[i])

\* ------------------------------------------------------------------------
\* Two derivations side by side (specification SpecPair): each invocation
\* makes one call of f(a, b=0), without a lock_name or under ["a", "b"]
\* ------------------------------------------------------------------------
PairOptions == {[debug |-> FALSE], [lock_name |-> ListV(<<StrV("a"), StrV("b")>>)]}

PairCalls ==
    { MkCall(FuncF, options, args, kwargs) :
        options \in PairOptions, args \in {<<>>, <<IntV(42)>>}, kwargs \in KwSeqs }

NextPair == \E i \in Invocations : pc[i] = "idle" /\ \E c \in PairCalls : Call(i, c)

SpecPair == Init /\ [][NextPair]_vars

\* the same mapping from keyword name to value, in whatever order it was given
SameMapping(kw1, kw2) ==
    /\ Len(kw1) = Len(kw2)
    /\ \A n \in 1..Len(kw1) : \E m \in 1..Len(kw2) : kw1[n] = kw2[m]

\* C11: two derivations for the same function, the same options, the same
\* positional arguments and the same mapping from keyword name to value give
\* the same result, without a lock_name as well as with one.
C11_SameCallSameKey ==
    \A i, j \in Invocations :
        (Called(i) /\ Called(j)
            /\ call[i].func = call[j].func /\ call[i].options = call[j].options
            /\ call[i].args = call[j].args
            /\ SameMapping(call[i].kwargs, call[j].kwargs))
           => derived[i] = derived[j]

\* ------------------------------------------------------------------------
\* Attribute chains
\* ------------------------------------------------------------------------
\* the call has a list lock_name of one term, a chain whose root is a bound
\* parameter name and that has at least one accessor
IsChainCall(c) ==
    /\ HasTerms(c) /\ Len(Terms(c)) = 1
    /\ Terms(c)[1].tag = "list" /\ Len(Terms(c)[1].elems) >= 2
    /\ Terms(c)[1].elems[1].tag = "str" /\ IsBound(c, Terms(c)[1].elems[1].s)

\* the accessors applied in order from value v, each as the attribute of that
\* name if the value has one and else as its key or index: the value at the
\* end, or "unresolved" with the text of the accessor that gave nothing
RECURSIVE Resolve(_, _)
Resolve(v, accessors) ==
    IF Len(accessors) = 0 THEN Found(v)
    ELSE LET a    == Head(accessors)
             step == IF a.tag = "str" /\ HasAttr(v, a.s) THEN Found(GetAttr(v, a.s))
                     ELSE GetItem(v, a)
         IN IF step.exc # "None" THEN Raise("unresolved", PyStr(a))
            ELSE Resolve(step.obj, Tail(accessors))

\* the error says which accessor was not found
NamesAccessor(r, accessor) ==
    r.exc # "None" /\ r.val = "Could not find attribute/key " \o accessor

\* C12: for a lock_name of one chain rooted at a bound parameter: when every
\* accessor resolves, as an attribute first and else as a key or index, the
\* lock name is the function's name, ":" and str of the last value (the dict
\* {"customer": {"id": 42}} under ["a", "customer", "id"] gives ":42"); when
\* an accessor resolves as neither, the construction fails with an error that
\* names that accessor.
C12_ChainResolvesOrNamesAccessor ==
    \A i \in Invocations :
        (Called(i) /\ IsChainCall(call[i]))
           => LET c == call[i]
                  r == Resolve(BoundValue(c, Terms(c)[1].elems[1].s), Tail(Terms(c)[1].elems))
              IN /\ r.exc = "None" => derived[i] = Ok(c.func.name \o ":" \o PyStr(r.obj))
                 /\ r.exc # "None" => NamesAccessor(derived[i], r.val)
                 /\ (c.args = <<Order>> /\ c.kwargs = <<>>
                       /\ Tail(Terms(c)[1].elems) = <<StrV("customer"), StrV("id")>>)
                      => derived[i] = Ok(c.func.name \o ":42")

\* ------------------------------------------------------------------------
\* The lock name in the absence of a lock_name option
\* ------------------------------------------------------------------------
\* the text is the placeholder of an object: "<", later "object at", later ">"
IsPlaceholder(s) ==
    \E p, q \in 1..Len(s) :
        /\ SubSeq(s, 1, 1) = "<"
        /\ p > 1 /\ p + 8 < q
        /\ SubSeq(s, p, p + 8) = "object at"
        /\ SubSeq(s, q, q) = ">"

\* what the values add, one after the other: ":" and str of the value, or
\* repr of it when str is a placeholder, or nothing when repr is one too
RECURSIVE ValueSegments(_)
ValueSegments(vals) ==
    IF Len(vals) = 0 THEN ""
    ELSE LET v == Head(vals)
         IN (IF ~IsPlaceholder(PyStr(v)) THEN ":" \o PyStr(v)
             ELSE IF ~IsPlaceholder(PyRepr(v)) THEN ":" \o PyRepr(v)
             ELSE "")
            \o ValueSegments(Tail(vals))

KwValuesOf(c) == [n \in 1..Len(c.kwargs) |-> c.kwargs[n].v]

\* C13: without a lock_name option the lock name is the function's name
\* followed by the segment of every positional argument in call order and
\* then of every keyword value; a segment is ":" + str(value), ":" +
\* repr(value) when str is a placeholder, and nothing when both are;
\* parameter names and defaults add nothing; process(42, "abc") gives
\* "process:42:abc".
C13_AutoKeyFromArguments ==
    \A i \in Invocations :
        (Called(i) /\ "lock_name" \notin DOMAIN call[i].options)
           => /\ derived[i] = Ok(call[i].func.name \o ValueSegments(call[i].args)
                                    \o ValueSegments(KwValuesOf(call[i])))
              /\ (call[i].func.name = "process" /\ call[i].kwargs = <<>>
                    /\ call[i].args = <<IntV(42), StrV("abc")>>)
                   => derived[i] = Ok("process:42:abc")

\* C13 happens: h(order, job) without a lock_name: the order, whose str and
\* repr are placeholders, adds nothing, the job adds its repr, and the
\* default "d" of c adds nothing
C13_Witness ==
    \E i \in Invocations :
        /\ Called(i) /\ call[i].func = FuncH /\ call[i].options = [debug |-> FALSE]
        /\ call[i].args = <<OrderObj, Job>> /\ call[i].kwargs = <<>>
        /\ derived[i] = Ok("h:Job(7)")

\* ------------------------------------------------------------------------
\* A lock_name that is a string
\* ------------------------------------------------------------------------
\* C14: with a lock_name option that is a string, the lock name is that
\* string and nothing else, whatever the function, its positional arguments
\* and its keyword arguments are.
C14_LiteralIsTheKey ==
    \A i \in Invocations :
        (Called(i) /\ "lock_name" \in DOMAIN call[i].options
            /\ call[i].options.lock_name.tag = "str")
           => derived[i] = Ok(call[i].options.lock_name.s)

\* C14 happens: h(42, "b") under lock_name="checkout-lock"
C14_Witness ==
    \E i \in Invocations :
        /\ Called(i) /\ call[i].func = FuncH
        /\ call[i].args = <<IntV(42), StrV("b")>> /\ call[i].kwargs = <<>>
        /\ call[i].options = [lock_name |-> StrV("checkout-lock")]
        /\ derived[i] = Ok("checkout-lock")

\* ------------------------------------------------------------------------
\* Names that the function does not declare
\* ------------------------------------------------------------------------
\* the parameter names a term refers to: itself, its members, or its root
NamesOf(term) ==
    CASE term.tag = "str" -> {term.s}
      [] term.tag = "PriorityList" ->
            {term.elems[k].s : k \in {n \in 1..Len(term.elems) : term.elems[n].tag = "str"}}
      [] term.tag = "list" ->
            (IF Len(term.elems) >= 1 /\ term.elems[1].tag = "str"
             THEN {term.elems[1].s} ELSE {})
      [] OTHER -> {}

ReferencedNames(c) == UNION {NamesOf(Terms(c)[n]) : n \in 1..Len(Terms(c))}

\* the name is neither a keyword argument of the call nor a declared parameter
Unknown(c, name) == ~HasKw(c, name) /\ ~Declared(c, name)

\* the error of lines 182-185: a member of a PriorityList was not found
MemberNotFound(r) ==
    r.exc = "ValueError" /\ r.val = "Could not find parameter within PriorityList"

\* C15 as stated: a list lock_name that refers, in a term, a member of a
\* PriorityList or the root of a chain, to a name the function does not
\* declare never gives a lock name.
C15_UndeclaredNameFails ==
    \A i \in Invocations :
        (Called(i) /\ HasTerms(call[i])
            /\ \E name \in ReferencedNames(call[i]) : ~Declared(call[i], name))
           => derived[i].exc # "None"

\* C15 as amended, for the first term of a list lock_name: a parameter name,
\* or the root of a chain, that is neither a keyword argument nor declared
\* fails the construction with the parameter-not-found error, and so does the
\* member of a PriorityList that is reached (all members before it bound and
\* not truthy); a name that is not declared but is a keyword argument is
\* bound to the keyword value, and the members after the first truthy one
\* are not looked at.
C15_UnknownNameFails ==
    \A i \in Invocations :
        (Called(i) /\ HasTerms(call[i]) /\ Len(Terms(call[i])) >= 1)
           => LET c    == call[i]
                  term == Terms(c)[1]
              IN /\ (IsBare(term) /\ Unknown(c, term.s)) => ParameterNotFound(derived[i])
                 /\ (term.tag = "list" /\ Len(term.elems) >= 1 /\ term.elems[1].tag = "str"
                       /\ Unknown(c, term.elems[1].s))
                      => ParameterNotFound(derived[i])
                 /\ IsGroup(term)
                      => \A k \in 1..Len(term.elems) :
                            /\ (Unknown(c, term.elems[k].s)
                                  /\ \A j \in 1..(k - 1) :
                                        /\ IsBound(c, term.elems[j].s)
                                        /\ ~Truthy(BoundValue(c, term.elems[j].s)))
                                 => MemberNotFound(derived[i])
                            /\ (FirstTruthy(c, term.elems, k) /\ Len(Terms(c)) = 1)
                                 => derived[i].exc = "None"
                 /\ (IsBare(term) /\ Len(Terms(c)) = 1 /\ HasKw(c, term.s))
                      => derived[i] = Ok(c.func.name \o ":" \o PyStr(KwOf(c, term.s)))

\* C15 happens: f("") under PriorityList ["a", "missing"]: a is not truthy,
\* missing is reached and is not found
C15_Witness ==
    \E i \in Invocations :
        /\ Called(i) /\ call[i].func = FuncF
        /\ call[i].args = <<StrV("")>> /\ call[i].kwargs = <<>>
        /\ call[i].options =
              [lock_name |-> ListV(<<PriorityList(<<StrV("a"), StrV("missing")>>)>>)]
        /\ MemberNotFound(derived[i])

\* ------------------------------------------------------------------------
\* A chain as a member of a PriorityList
\* ------------------------------------------------------------------------
\* the term is a chain: a list of a parameter name and at least one accessor
IsChain(term) ==
    term.tag = "list" /\ Len(term.elems) >= 2 /\ term.elems[1].tag = "str"

\* C16: for a lock_name of one PriorityList whose one member is a chain rooted
\* at a bound parameter: when the chain resolves to a truthy value the lock
\* name is the function's name, ":" and str of that value; when it resolves to
\* a value that is not truthy the lock name is the function's name.
C16_ChainMemberOfGroup ==
    \A i \in Invocations :
        (Called(i) /\ HasTerms(call[i]) /\ Len(Terms(call[i])) = 1
            /\ Terms(call[i])[1].tag = "PriorityList"
            /\ Len(Terms(call[i])[1].elems) = 1
            /\ IsChain(Terms(call[i])[1].elems[1])
            /\ IsBound(call[i], Terms(call[i])[1].elems[1].elems[1].s))
           => LET c     == call[i]
                  chain == Terms(c)[1].elems[1].elems
                  r     == Resolve(BoundValue(c, chain[1].s), Tail(chain))
              IN r.exc = "None"
                    => derived[i] = (IF Truthy(r.obj)
                                     THEN Ok(c.func.name \o ":" \o PyStr(r.obj))
                                     ELSE Ok(c.func.name))

\* ------------------------------------------------------------------------
\* A lock_name of a type that is not valid
\* ------------------------------------------------------------------------
\* C17: a lock_name option that is neither a string nor a list, and a list
\* lock_name whose first term is not a string, a PriorityList or a list, both
\* end the invocation with a TypeError: no lock name is constructed and the
\* lock is not asked for.
C17_InvalidLockNameIsAnError ==
    \A i \in Invocations :
        (Called(i) /\ "lock_name" \in DOMAIN call[i].options)
           => LET ln == call[i].options.lock_name
              IN (\/ ln.tag \notin {"str", "list"}
                  \/ /\ ln.tag = "list" /\ Len(ln.elems) >= 1
                     /\ ln.elems[1].tag \notin {"str", "PriorityList", "list"})
                    => (derived[i].exc = "TypeError" /\ pc[i] = "done"
                          /\ outcome[i] = Raised("TypeError"))

\* ------------------------------------------------------------------------
\* lock(func, **keywords): lock called with one callable goes to _lock_context
\* (specification SpecContext).  An invocation is a with statement over what
\* lock(func, **keywords) returns; keywords.args is a tuple of values and
\* keywords.kwargs a dict, here one that holds options and nothing else.
\* ------------------------------------------------------------------------
\* lock(f): no keyword at all
NoKeywords == <<>>

ContextKeywords ==
    { NoKeywords,
      [timeout |-> IntV(5), release_on_completion |-> TRUE],
      [args |-> <<IntV(1)>>,
       kwargs |-> [lock_name |-> ListV(<<StrV("a")>>), release_on_completion |-> TRUE,
                   locked |-> StrV("busy")]],
      [args |-> <<IntV(1)>>, kwargs |-> [lock_name |-> StrV("f:1"), timeout |-> IntV(1)]],
      [args |-> <<>>, kwargs |-> [lock_name |-> ListV(<<StrV("options")>>)],
       timeout |-> IntV(5)] }

ContextCalls == {[func |-> FuncF, keywords |-> k] : k \in ContextKeywords}

\* line 118: _lock_context(args[0], **options) binds func alone by position;
\* args and kwargs are bound only when they are among the keywords, and the
\* call raises TypeError (missing required positional arguments) otherwise
ContextBinds(keywords) == "args" \in DOMAIN keywords /\ "kwargs" \in DOMAIN keywords

\* lines 90-98: the options are popped from kwargs, each with its default;
\* the keywords of lock other than args and kwargs are not read
ContextOptions(kwargs) ==
    [debug |-> OptGet(kwargs, "debug", FALSE),
     cache |-> OptGet(kwargs, "cache", "default"),
     locked |-> OptGet(kwargs, "locked", NoneV),
     blocking |-> OptGet(kwargs, "blocking", FALSE),
     timeout |-> OptGet(kwargs, "timeout", IntV(DefaultTimeout)),
     lock_name |-> OptGet(kwargs, "lock_name", ListV(<<>>)),
     release_on_completion |-> OptGet(kwargs, "release_on_completion", FALSE)]

\* line 100: kwargs["options"] = options; the dict as a value
OptionsValue(o) ==
    DictV(<<[k |-> StrV("debug"), v |-> BoolV(o.debug)],
            [k |-> StrV("cache"), v |-> StrV(o.cache)],
            [k |-> StrV("locked"), v |-> o.locked],
            [k |-> StrV("blocking"), v |-> BoolV(o.blocking)],
            [k |-> StrV("timeout"), v |-> o.timeout],
            [k |-> StrV("lock_name"), v |-> o.lock_name],
            [k |-> StrV("release_on_completion"), v |-> BoolV(o.release_on_completion)]>>)

\* the options of the with statement of invocation i, and its lock
OptionsOf(i) == ContextOptions(call[i].options.kwargs)

ContextLockOf(i) == LockId(OptionsOf(i), derived[i].val)

\* lines 117-118: lock(func, **keywords) is evaluated; a TypeError of the call
\* of _lock_context reaches the caller of lock, else the context manager is
\* there, its body not yet started
LockContext(i, c) ==
    /\ pc[i] = "idle"
    /\ call' = [call EXCEPT ![i] =
                   MkCall(c.func, c.keywords,
                          IF ContextBinds(c.keywords) THEN c.keywords.args ELSE <<>>, <<>>)]
    /\ IF ContextBinds(c.keywords)
       THEN /\ pc' = [pc EXCEPT ![i] = "created"]
            /\ UNCHANGED outcome
       ELSE /\ pc' = [pc EXCEPT ![i] = "done"]
            /\ outcome' = [outcome EXCEPT ![i] = Raised("TypeError")]
    /\ UNCHANGED <<derived, attempted, handle, ran, funcResult, releaseCalls, releaseExc,
                   waited, store, now>>

\* __enter__, lines 90-101: the options are popped, kwargs gets its "options"
\* entry and the lock name is constructed; an exception leaves the with
\* statement
Enter(i) ==
    /\ pc[i] = "created"
    /\ LET options == OptionsOf(i)
           kwargs  == <<[k |-> "options", v |-> OptionsValue(options)]>>
           r       == construct_lock_name(call[i].func, call[i].args, kwargs, options)
       IN /\ derived' = [derived EXCEPT ![i] = r]
          /\ call' = [call EXCEPT ![i].kwargs = kwargs]
          /\ IF DerivationFailed(r)
             THEN /\ pc' = [pc EXCEPT ![i] = "done"]
                  /\ outcome' = [outcome EXCEPT ![i] = Raised(r.exc)]
             ELSE /\ pc' = [pc EXCEPT ![i] = "entering"]
                  /\ UNCHANGED outcome
    /\ UNCHANGED <<attempted, handle, ran, funcResult, releaseCalls, releaseExc, waited,
                   store, now>>

\* __enter__, lines 102-108: acquire_lock, then the yield: of nothing (None)
\* with the lock, of the locked option without it; in both cases the body of
\* the with statement starts, outcome holding what __enter__ returned
EnterAcquire(i) ==
    /\ pc[i] = "entering"
    /\ attempted' = [attempted EXCEPT ![i] = TRUE]
    /\ IF ~Held(ContextLockOf(i))
       THEN /\ store' = store \cup
                  { [cache |-> ContextLockOf(i).cache, name |-> ContextLockOf(i).name,
                     owner |-> i, expires |-> Expiry(OptionsOf(i), now)] }
            /\ handle' = [handle EXCEPT ![i] = TRUE]
            /\ pc' = [pc EXCEPT ![i] = "body"]
            /\ outcome' = [outcome EXCEPT ![i] = Returned(NoneV)]
       ELSE IF GivesUp(OptionsOf(i), waited[i])
       THEN /\ pc' = [pc EXCEPT ![i] = "body"]
            /\ outcome' = [outcome EXCEPT ![i] = Returned(OptionsOf(i).locked)]
            /\ UNCHANGED <<store, handle>>
       ELSE UNCHANGED <<pc, outcome, store, handle>>
    /\ UNCHANGED <<call, derived, ran, funcResult, releaseCalls, releaseExc, waited, now>>

\* the body of the with statement returns or raises
BodyEnds(i, result) ==
    /\ pc[i] = "body"
    /\ funcResult' = [funcResult EXCEPT ![i] = result]
    /\ pc' = [pc EXCEPT ![i] = "exiting"]
    /\ UNCHANGED <<call, derived, attempted, handle, ran, releaseCalls, releaseExc,
                   outcome, waited, store, now>>

\* __exit__, lines 109-115: with the lock and release_on_completion True the
\* lock is released, an exception of release() being dropped; what the body
\* did is the outcome of the with statement
Exit(i, reachable) ==
    /\ pc[i] = "exiting"
    /\ IF handle[i] /\ OptionsOf(i).release_on_completion = TRUE
       THEN LET released == IF ~reachable THEN Raise("ConnectionError", "release")
                            ELSE IF HeldBy(ContextLockOf(i), i) THEN Ok("released")
                            ELSE Raise("LockNotOwnedError", "release")
            IN /\ releaseCalls' = [releaseCalls EXCEPT ![i] = @ + 1]
               /\ releaseExc' = [releaseExc EXCEPT ![i] = released.exc]
               /\ store' = IF released.exc = "None"
                           THEN {l \in store : ~(l.cache = ContextLockOf(i).cache
                                                 /\ l.name = ContextLockOf(i).name)}
                           ELSE store
       ELSE UNCHANGED <<releaseCalls, releaseExc, store>>
    /\ outcome' = [outcome EXCEPT ![i] = funcResult[i]]
    /\ pc' = [pc EXCEPT ![i] = "done"]
    /\ UNCHANGED <<call, derived, attempted, handle, ran, funcResult, waited, now>>

NextContext ==
    \/ \E i \in Invocations, c \in ContextCalls : LockContext(i, c)
    \/ \E i \in Invocations : Enter(i)
    \/ \E i \in Invocations : EnterAcquire(i)
    \/ \E i \in Invocations, result \in FuncResults : BodyEnds(i, result)
    \/ \E i \in Invocations, reachable \in BOOLEAN : Exit(i, reachable)
    \/ Tick

SpecContext == Init /\ [][NextContext]_vars

\* C18: lock called with one callable and no args and kwargs keywords gives a
\* context manager: the call does not raise, and a with statement over it
\* that has ended has constructed its lock name and called lock.acquire.
C18_BareLockIsAContextManager ==
    \A i \in Invocations :
        (Called(i) /\ ~ContextBinds(call[i].options))
           => /\ outcome[i] # Raised("TypeError")
              /\ pc[i] = "done" => attempted[i]

\* ------------------------------------------------------------------------
\* The lock after the invocation (specification Spec)
\* ------------------------------------------------------------------------
\* the entry of the cache for the lock of invocation i, taken by i
EntryOf(i) ==
    CHOOSE l \in store :
        l.cache = LockOf(i).cache /\ l.name = LockOf(i).name /\ l.owner = i

\* C19: the lock that an invocation without release_on_completion=True takes
\* is entered in the cache with its timeout (60 when not given, none for
\* None) and leaves the cache only by the passing of time, at the moment the
\* timeout has run out, and never by a step of the invocation; while it is
\* there and func has finished, a non-blocking invocation with the same lock
\* that calls lock.acquire ends in that step with its locked option, without
\* having invoked func.
C19_UnreleasedLockHeldUntilExpiry ==
    [][\A i \in Invocations :
          /\ (~handle[i] /\ handle'[i] /\ ~ReleaseEnabled(i))
               => /\ HeldBy(LockOf(i), i)'
                  /\ EntryOf(i)'.expires =
                        (IF TimeoutOf(i) < 0 THEN 0 - 1 ELSE now + TimeoutOf(i))
          /\ (handle[i] /\ ~ReleaseEnabled(i) /\ HeldBy(LockOf(i), i))
               => /\ HeldBy(LockOf(i), i)'
                     \/ (now' = now + 1 /\ EntryOf(i).expires = now')
                  /\ releaseCalls'[i] = 0
                  /\ \A j \in Invocations :
                        (j # i /\ funcResult[i] # NoOutcome /\ SameLock(i, j)
                           /\ pc[j] = "acquire" /\ ~Blocking(j) /\ attempted'[j])
                          => (pc'[j] = "done" /\ outcome'[j] = Returned(Fallback(j))
                                /\ ran'[j] = 0)]_vars

\* C19 happens: an invocation without release_on_completion has ended, func
\* having raised, and its lock is still in the cache while a non-blocking
\* invocation with the same lock is about to call lock.acquire
C19_Witness ==
    \E i, j \in Invocations :
        /\ i # j /\ SameLock(i, j)
        /\ pc[i] = "done" /\ handle[i] /\ ~ReleaseEnabled(i)
        /\ funcResult[i] = Raised("RuntimeError") /\ HeldBy(LockOf(i), i)
        /\ pc[j] = "acquire" /\ ~attempted[j] /\ ~Blocking(j) /\ now >= 1

\* C20: the step in which an invocation leaves lock.acquire without the lock
\* changes nothing in the caches, so every lock is held by whom it was held
\* before, and the invocation has not called and never calls lock.release,
\* whatever its release_on_completion is.
C20_SkipLeavesLocksAlone ==
    [][\A i \in Invocations :
          /\ (pc[i] = "acquire" /\ pc'[i] = "done")
               => /\ store' = store
                  /\ ~handle'[i] /\ releaseCalls'[i] = 0
                  /\ \E j \in Invocations : j # i /\ HeldBy(LockOf(i), j)'
          /\ (pc[i] = "done" /\ ~handle[i]) => releaseCalls'[i] = 0]_vars

\* C20 happens: an invocation with release_on_completion=True was skipped and
\* has released nothing; the holder of its lock still holds it, inside func
C20_Witness ==
    \E i, j \in Invocations :
        /\ i # j /\ SameLock(i, j)
        /\ pc[j] = "done" /\ attempted[j] /\ ~handle[j]
        /\ ReleaseEnabled(j) /\ releaseCalls[j] = 0
        /\ pc[i] = "running" /\ HeldBy(LockOf(j), i)

====
